---- MODULE Spec2Model ----
(***************************************************************************)
(* Court booking server: the in-memory ledger (MemStorage) and the HTTP   *)
(* handlers that book, cancel and complete reservations.                  *)
(*                                                                         *)
(* Every handler is an async function.  Each `await` is a point where the *)
(* handler yields and another request's handler may run, so a handler is  *)
(* modelled as one action per stretch of code between two awaits.  The    *)
(* storage methods have no await of their own: their bodies run           *)
(* synchronously at the call, before the caller's await yields.           *)
(*                                                                         *)
(* Dates are day offsets from today (the "yyyy-MM-dd" strings compare in  *)
(* calendar order); a start time "HH:MM" is the record [hh, mm].          *)
(***************************************************************************)
EXTENDS Integers, Sequences, FiniteSets, TLC

VARIABLES
    bookings,     \* MemStorage.bookings, in insertion order; the id is the index
    pc,           \* per request slot: where its handler stands
    body,         \* per slot: the validated body of a booking request
    isAvailable,  \* per slot: the result of checkSlotAvailability
    target,       \* per slot: req.params.id of a cancel/complete request
    snap,         \* per slot: status of the booking read by getBooking
    resp,         \* per slot: the response sent, [code, id]
    probe,        \* inputs of the overlap test (pure-function check)
    probeOut,     \* its result
    session       \* req.session of the browser session the requests are made on

vars == <<bookings, pc, body, isAvailable, target, snap, resp, probe, probeOut,
          session>>

----------------------------------------------------------------------------
(* Program constants *)

OPENING_HOUR == 6
CLOSING_HOUR == 23
MIN_HOURS == 1
MAX_HOURS == 8
Today == 0

CourtIds == {"court-a", "court-b"}

pricePerHour == [cricket |-> 2000, football |-> 2500]

(* Bound of the model: the number of requests that arrive.  Request p is
   served by handler instance p; the handlers run interleaved at their awaits. *)
MaxRequests == 3

Procs == 1..MaxRequests

----------------------------------------------------------------------------
(* Time tokens *)

Time(h) == [hh |-> h, mm |-> 0]

\* parseInt(startTime.split(":")[0], 10)
parseStartHour(t) == t.hh

\* What parseInt returns for a token that does not begin with a digit (the
\* schema takes any string as startTime): NaN, written as the hh of such a
\* token.  NaN + hours is NaN, and every comparison with NaN is false.
NaN == -1000

----------------------------------------------------------------------------
(* Seed data *)

Seed(sport, court, daysAgo, startHour, hours, amount) ==
    [sportId |-> sport, courtId |-> court, date |-> Today - daysAgo,
     startTime |-> Time(startHour), hours |-> hours, amount |-> amount,
     status |-> "booked"]

sampleBookings ==
    << Seed("cricket",  "court-a", 0,  9, 2, 4000),
       Seed("football", "court-b", 0, 14, 1, 2500),
       Seed("cricket",  "court-a", 1, 10, 3, 6000),
       Seed("football", "court-a", 1, 16, 2, 5000),
       Seed("cricket",  "court-b", 2,  8, 2, 4000),
       Seed("football", "court-a", 2, 18, 1, 2500),
       Seed("cricket",  "court-b", 3, 11, 2, 4000),
       Seed("football", "court-b", 3, 15, 2, 5000),
       Seed("cricket",  "court-a", 4,  7, 1, 2000),
       Seed("football", "court-a", 4, 19, 2, 5000),
       Seed("cricket",  "court-b", 5, 12, 3, 6000),
       Seed("football", "court-b", 5, 17, 1, 2500),
       Seed("cricket",  "court-a", 6,  8, 2, 4000),
       Seed("football", "court-a", 6, 20, 2, 5000),
       Seed("cricket",  "court-b", 0, 18, 1, 2000) >>

\* id = randomUUID(), uuid = randomUUID().slice(0, 8).toUpperCase(): the seeds
\* get the ids 1, 2, ... in order, and here 15 different uuids
seedData ==
    [i \in 1..Len(sampleBookings) |-> [id |-> i, uuid |-> i] @@ sampleBookings[i]]

NumSeeds == Len(sampleBookings)

----------------------------------------------------------------------------
(* MemStorage *)

\* bookings.get(id)
\* undefined where a booking is looked for: find() returned nothing
NoBookingId == 0

\* (variant: an id that names nothing falls back on the first booking)
getBooking_orFirst(bks, id) ==
    IF id \in DOMAIN bks THEN bks[id] ELSE bks[1]

getBooking(bks, id) ==
    IF id \in DOMAIN bks THEN bks[id] ELSE [id |-> 0, status |-> "missing"]

\* mutant: the filter without its status test
getBookingsForDateAndCourt_anyStatus(bks, date, courtId) ==
    SelectSeq(bks, LAMBDA b : b.date = date /\ b.courtId = courtId)

\* the filter of getBookingsForDateAndCourt
getBookingsForDateAndCourt(bks, date, courtId) ==
    SelectSeq(bks, LAMBDA b : b.date = date /\ b.courtId = courtId
                               /\ b.status = "booked")

\* mutant: the window test without its closing-hour half
outsideOpeningWindow_noClosing(requestedStartHour, requestedEndHour) ==
    requestedStartHour < OPENING_HOUR

\* the window test of checkSlotAvailability; TRUE when the request is refused
outsideOpeningWindow(requestedStartHour, requestedEndHour) ==
    requestedStartHour < OPENING_HOUR \/ requestedEndHour > CLOSING_HOUR

\* mutant: the conflict test without its third case (the request covers the
\* booking)
slotConflict_noCover(requestedStartHour, requestedEndHour, bookingStartHour, bookingEndHour) ==
    \/ requestedStartHour >= bookingStartHour /\ requestedStartHour < bookingEndHour
    \/ requestedEndHour > bookingStartHour /\ requestedEndHour <= bookingEndHour

\* mutant: the conflict test with closed ranges
slotConflict_closed(requestedStartHour, requestedEndHour, bookingStartHour, bookingEndHour) ==
    \/ requestedStartHour >= bookingStartHour /\ requestedStartHour <= bookingEndHour
    \/ requestedEndHour >= bookingStartHour /\ requestedEndHour <= bookingEndHour
    \/ requestedStartHour <= bookingStartHour /\ requestedEndHour >= bookingEndHour

\* the conflict test of checkSlotAvailability's loop
slotConflict(requestedStartHour, requestedEndHour, bookingStartHour, bookingEndHour) ==
    \/ requestedStartHour >= bookingStartHour /\ requestedStartHour < bookingEndHour
    \/ requestedEndHour > bookingStartHour /\ requestedEndHour <= bookingEndHour
    \/ requestedStartHour <= bookingStartHour /\ requestedEndHour >= bookingEndHour

checkSlotAvailability(bks, courtId, date, startTime, hours) ==
    LET existingBookings == getBookingsForDateAndCourt(bks, date, courtId)
        requestedStartHour == parseStartHour(startTime)
        requestedEndHour == requestedStartHour + hours
    IN  IF requestedStartHour = NaN
        THEN \* neither the window test nor any conflict test is true
             TRUE
        ELSE IF outsideOpeningWindow(requestedStartHour, requestedEndHour)
        THEN FALSE
        ELSE \A i \in DOMAIN existingBookings :
                LET bookingStartHour == parseStartHour(existingBookings[i].startTime)
                    bookingEndHour == bookingStartHour + existingBookings[i].hours
                IN  \/ bookingStartHour = NaN
                    \/ ~slotConflict(requestedStartHour, requestedEndHour,
                                     bookingStartHour, bookingEndHour)

\* status: booking.status || "booked"   ("" stands for an absent status)
initialStatus(b) == IF b.status = "" THEN "booked" ELSE b.status

\* What randomUUID().slice(0, 8).toUpperCase() may return: 8 hex digits drawn
\* at random, which no code compares with the uuids already in the ledger.
\* Either a value no booking has, or one a booking has (here the first's).
uuidDraws(bks) == {Len(bks) + 1, bks[1].uuid}

\* the record createBooking stores; the fresh id is the next index
newBooking(bks, b, uuid) ==
    [id |-> Len(bks) + 1, uuid |-> uuid, sportId |-> b.sportId,
     courtId |-> b.courtId, date |-> b.date, startTime |-> b.startTime,
     hours |-> b.hours, amount |-> b.amount, status |-> initialStatus(b)]

createBooking(bks, b, uuid) == Append(bks, newBooking(bks, b, uuid))

\* Array.from(this.bookings.values()).find((b) => b.uuid === uuid): the id of
\* the first booking with that uuid, undefined when there is none
getBookingByUuid(bks, uuid) ==
    LET hits == {i \in DOMAIN bks : bks[i].uuid = uuid}
    IN  IF hits = {} THEN NoBookingId
        ELSE bks[CHOOSE i \in hits : \A j \in hits : i <= j].id

\* a.localeCompare(b) on two "HH:MM" tokens: the sign of the comparison
localeCompareTime(s, t) ==
    IF s.hh # t.hh THEN (IF s.hh < t.hh THEN -1 ELSE 1)
    ELSE IF s.mm # t.mm THEN (IF s.mm < t.mm THEN -1 ELSE 1)
    ELSE 0

\* a.localeCompare(b) on two "yyyy-MM-dd" dates
localeCompareDate(d, e) == IF d < e THEN -1 ELSE IF d > e THEN 1 ELSE 0

\* (variant: the dates are compared oldest first)
compareBookings_oldestFirst(a, b) ==
    LET dateCompare == localeCompareDate(a.date, b.date)
    IN  IF dateCompare # 0 THEN dateCompare
        ELSE localeCompareTime(a.startTime, b.startTime)

\* the comparator getBookings passes to sort
compareBookings(a, b) ==
    LET dateCompare == localeCompareDate(b.date, a.date)
    IN  IF dateCompare # 0 THEN dateCompare
        ELSE localeCompareTime(a.startTime, b.startTime)

\* Array.prototype.sort is stable: an element goes behind the elements that
\* do not compare greater than it
insertSorted(sorted, x) ==
    LET n == Cardinality({i \in DOMAIN sorted : compareBookings(sorted[i], x) <= 0})
    IN  SubSeq(sorted, 1, n) \o <<x>> \o SubSeq(sorted, n + 1, Len(sorted))

RECURSIVE sortBookings(_)
sortBookings(bks) ==
    IF bks = <<>> THEN <<>>
    ELSE insertSorted(sortBookings(SubSeq(bks, 1, Len(bks) - 1)), bks[Len(bks)])

\* Array.from(this.bookings.values()).sort(...)
getBookings(bks) == sortBookings(bks)

\* (variant: the update drops the record instead of storing it back)
updateBookingStatus_delete(bks, id, status) ==
    SelectSeq(bks, LAMBDA b : b.id # id)

\* (variant: the status is stored on every booking of the ledger)
updateBookingStatus_all(bks, id, status) ==
    [i \in DOMAIN bks |-> [bks[i] EXCEPT !.status = status]]

updateBookingStatus(bks, id, status) ==
    IF id \in DOMAIN bks
    THEN [bks EXCEPT ![id] = [@ EXCEPT !.status = status]]
    ELSE bks

\* getAvailability: the hours of the bookings read for one court and date.
\* (variant: only the hour a booking starts at is added)
bookedHours_startOnly(courtBookings) ==
    {parseStartHour(courtBookings[i].startTime) : i \in DOMAIN courtBookings}

\* for (let h = 0; h < booking.hours; h++) bookedHours.add(startHour + h)
bookedHours(courtBookings) ==
    UNION {{parseStartHour(courtBookings[i].startTime) + h :
                h \in 0..(courtBookings[i].hours - 1)} :
           i \in DOMAIN courtBookings}

\* courtBookings.find((b) => parseInt(b.startTime.split(":")[0], 10) === hour)
\* and then existingBooking?.id: the id of the first booking read that starts
\* at that hour
existingBookingId(courtBookings, hour) ==
    LET hits == {i \in DOMAIN courtBookings :
                    parseStartHour(courtBookings[i].startTime) = hour}
    IN  IF hits = {} THEN NoBookingId
        ELSE courtBookings[CHOOSE i \in hits : \A j \in hits : i <= j].id

\* (variant: the loop runs while hour <= CLOSING_HOUR)
courtSlots_throughClosing(bks, date, courtId) ==
    LET courtBookings == getBookingsForDateAndCourt(bks, date, courtId)
        booked == bookedHours(courtBookings)
    IN  [i \in 1..(CLOSING_HOUR - OPENING_HOUR + 1) |->
            LET hour == OPENING_HOUR + i - 1
            IN  [time |-> Time(hour),
                 available |-> hour \notin booked,
                 bookingId |-> existingBookingId(courtBookings, hour)]]

\* the slots pushed for one court, hour = OPENING_HOUR, ..., CLOSING_HOUR - 1,
\* from the bookings that one call of getBookingsForDateAndCourt returned
courtSlots(bks, date, courtId) ==
    LET courtBookings == getBookingsForDateAndCourt(bks, date, courtId)
        booked == bookedHours(courtBookings)
    IN  [i \in 1..(CLOSING_HOUR - OPENING_HOUR) |->
            LET hour == OPENING_HOUR + i - 1
            IN  [time |-> Time(hour),
                 available |-> hour \notin booked,
                 bookingId |-> existingBookingId(courtBookings, hour)]]

getAvailability(bks, date) == [c \in CourtIds |-> courtSlots(bks, date, c)]

----------------------------------------------------------------------------
(* Dashboard metrics and chart data.  `new Date()` is the clock read by the
   call: the day it is (today), and how far into the week and the month that
   day lies. *)

\* the clock on a day that is the dayOfWeek-th day after the start of its
\* week (startOfWeek) and the dayOfMonth-th day of its month (startOfMonth)
Clock(dayOfWeek, dayOfMonth) ==
    [today |-> Today, weekStart |-> Today - dayOfWeek,
     monthStart |-> Today - (dayOfMonth - 1)]

\* .filter((b) => b.status === "booked" || b.status === "completed")
\* (variant: the filter lets every status through)
countedBookings_all(bks) == bks

countedBookings(bks) ==
    SelectSeq(bks, LAMBDA b : b.status = "booked" \/ b.status = "completed")

RECURSIVE sumAmount(_)
\* .reduce((sum, b) => sum + b.amount, 0)
sumAmount(bks) ==
    IF bks = <<>> THEN 0 ELSE bks[1].amount + sumAmount(Tail(bks))

RECURSIVE sumHours(_)
\* .reduce((sum, b) => sum + b.hours, 0)
sumHours(bks) ==
    IF bks = <<>> THEN 0 ELSE bks[1].hours + sumHours(Tail(bks))

\* (variant: the fraction is cut off, as Math.floor does)
roundPercent_floor(n, d) == (100 * n) \div d

\* Math.round((n / d) * 100) for n >= 0, d > 0: the nearest integer, a half
\* rounded up
roundPercent(n, d) == (200 * n + d) \div (2 * d)

\* (this.CLOSING_HOUR - this.OPENING_HOUR) * 7
totalSlots == (CLOSING_HOUR - OPENING_HOUR) * 7

\* b.courtId === courtId && b.date >= format(subDays(new Date(), 7), ...)
courtWindowBookings(counted, courtId, clock) ==
    SelectSeq(counted, LAMBDA b : b.courtId = courtId /\ b.date >= clock.today - 7)

getDashboardMetrics(bks, clock) ==
    LET counted == countedBookings(bks)
    IN  [todayRevenue |->
             sumAmount(SelectSeq(counted, LAMBDA b : b.date = clock.today)),
         weekRevenue |->
             sumAmount(SelectSeq(counted, LAMBDA b : b.date >= clock.weekStart)),
         monthRevenue |->
             sumAmount(SelectSeq(counted, LAMBDA b : b.date >= clock.monthStart)),
         totalBookings |-> Len(counted),
         courtAOccupancy |->
             roundPercent(sumHours(courtWindowBookings(counted, "court-a", clock)),
                          totalSlots),
         courtBOccupancy |->
             roundPercent(sumHours(courtWindowBookings(counted, "court-b", clock)),
                          totalSlots)]

\* the catalog's sports in the order getChartData lists them
SportIds == <<"cricket", "football">>

\* cricketBookings + footballBookings
totalSportBookings(counted) ==
    Len(SelectSeq(counted, LAMBDA b : b.sportId = "cricket"))
        + Len(SelectSeq(counted, LAMBDA b : b.sportId = "football"))

getChartData(bks, clock) ==
    LET counted == countedBookings(bks)
        \* for (let i = 6; i >= 0; i--): date = subDays(new Date(), i)
        dayOf(n) == clock.today - (7 - n)
        dayBookings(n) == SelectSeq(counted, LAMBDA b : b.date = dayOf(n))
        sportBookings(s) == SelectSeq(counted, LAMBDA b : b.sportId = s)
        total == totalSportBookings(counted)
    IN  [revenueByDay |->
             [n \in 1..7 |-> [date |-> dayOf(n),
                              revenue |-> sumAmount(dayBookings(n))]],
         bookingsByDay |->
             [n \in 1..7 |->
                 [date |-> dayOf(n),
                  courtA |-> Len(SelectSeq(dayBookings(n),
                                           LAMBDA b : b.courtId = "court-a")),
                  courtB |-> Len(SelectSeq(dayBookings(n),
                                           LAMBDA b : b.courtId = "court-b"))]],
         occupancyByCourtAndSport |->
             [n \in 1..Len(SportIds) |->
                 [court |-> "All", sport |-> SportIds[n],
                  percentage |->
                      IF total > 0
                      THEN roundPercent(Len(sportBookings(SportIds[n])), total)
                      ELSE 0]]]

----------------------------------------------------------------------------
(* Routes *)

\* insertBookingSchema: hours: z.number().min(1).max(8)
validBody(b) == b.hours >= MIN_HOURS /\ b.hours <= MAX_HOURS

\* POST /api/bookings/:id/cancel: if (booking.status === "cancelled") -> 400
cancelRefused(status) == status = "cancelled"

\* mutant: the complete route tests for the wrong status
completeRefused_wrongStatus(status) == status = "completed"

\* POST /api/bookings/:id/complete: if (booking.status === "cancelled") -> 400
completeRefused(status) == status = "cancelled"

----------------------------------------------------------------------------
(* Request inputs *)

Body(court, startHour, hours, sport, amount, status) ==
    [courtId |-> court, date |-> Today, startTime |-> Time(startHour),
     hours |-> hours, sportId |-> sport, amount |-> amount, status |-> status]

\* The request bodies the clients send ("" is an absent status): the booking
\* form's bodies (amount = price * hours, no status), a client that sends the
\* hourly price as the amount, a client that sets the status itself, two
\* requests outside the opening window and one with too many hours.
Bodies ==
    { Body("court-a",  9, 2, "cricket",  4000, ""),
      Body("court-a", 10, 1, "cricket",  2000, ""),
      Body("court-a", 11, 1, "cricket",  2000, ""),
      Body("court-a", 11, 2, "football", 2500, ""),
      Body("court-a", 11, 1, "football", 2500, "completed"),
      Body("court-b",  9, 2, "cricket",  4000, ""),
      Body("court-a",  5, 1, "cricket",  2000, ""),
      Body("court-a", 22, 2, "football", 5000, ""),
      Body("court-a", 11, MAX_HOURS + 1, "cricket", 18000, "") }

NoBody == [courtId |-> "", date |-> Today, startTime |-> Time(0), hours |-> 0,
           sportId |-> "", amount |-> 0, status |-> ""]

UnknownId == 0
NoResp == [code |-> 0, id |-> 0]

\* ids a cancel/complete request may name: the first seed, the bookings
\* created since, and an id that names nothing
TargetIds(bks) == {1, UnknownId} \cup ((NumSeeds + 1)..Len(bks))

\* requests are numbered in their order of arrival
Arrives(p) == pc[p] = "idle" /\ \A q \in 1..(p - 1) : pc[q] # "idle"

----------------------------------------------------------------------------
(* Sessions and the admin account *)

\* bcrypt.hashSync and bcrypt.compare: a hash is matched by the password it
\* was made from and by no other
bcryptHash(password) == <<"$2b$10$", password>>
bcryptCompare(password, hash) == hash = bcryptHash(password)

NoUser == [id |-> "", username |-> "", password |-> <<>>]

\* this.admins after seedData
admins ==
    [username \in {"admin"} |->
        [id |-> "admin-1", username |-> username,
         password |-> bcryptHash("admin123")]]

verifyAdminPassword(username, password) ==
    IF username \notin DOMAIN admins THEN NoUser
    ELSE IF bcryptCompare(password, admins[username].password)
         THEN admins[username]
         ELSE NoUser

\* a session the store has no userId for (new, or destroyed)
NoSession == [userId |-> "", username |-> ""]

\* the session after the login route has answered 200
LoggedIn == [userId |-> "admin-1", username |-> "admin"]

\* (variant: next() is called whatever the session holds)
requireAuth_always(sess) == TRUE

\* TRUE when requireAuth calls next(), FALSE when it answers 401
requireAuth(sess) == sess.userId # ""

----------------------------------------------------------------------------
(* Initial state: the constructor has run seedData.  The requests of the
   specifications below that do not go through requireAuth are made on a
   session that is logged in. *)

NoProbe == [s1 |-> 0, h1 |-> 0, s2 |-> 0, h2 |-> 0]

Init ==
    /\ bookings = seedData
    /\ pc = [p \in Procs |-> "idle"]
    /\ body = [p \in Procs |-> NoBody]
    /\ isAvailable = [p \in Procs |-> FALSE]
    /\ target = [p \in Procs |-> UnknownId]
    /\ snap = [p \in Procs |-> ""]
    /\ resp = [p \in Procs |-> NoResp]
    /\ probe = NoProbe
    /\ probeOut = "unused"
    /\ session = LoggedIn

----------------------------------------------------------------------------
(* POST /api/bookings *)

\* up to the await of checkSlotAvailability: validation, then the
\* availability check (it reads the ledger at the call)
PostBookingCheck(p, b) ==
    /\ Arrives(p)
    /\ body' = [body EXCEPT ![p] = b]
    /\ IF ~validBody(b)
       THEN /\ pc' = [pc EXCEPT ![p] = "done"]
            /\ resp' = [resp EXCEPT ![p] = [code |-> 400, id |-> 0]]
            /\ UNCHANGED isAvailable
       ELSE /\ pc' = [pc EXCEPT ![p] = "book_checked"]
            /\ isAvailable' = [isAvailable EXCEPT ![p] =
                   checkSlotAvailability(bookings, b.courtId, b.date,
                                         b.startTime, b.hours)]
            /\ UNCHANGED resp
    /\ UNCHANGED <<bookings, target, snap, probe, probeOut, session>>

\* (variant: createBooking runs before the answer of the check is looked at)
PostBookingCreate_storesFirst(p) ==
    /\ pc[p] = "book_checked"
    /\ \E uuid \in uuidDraws(bookings) :
          bookings' = createBooking(bookings, body[p], uuid)
    /\ resp' = [resp EXCEPT ![p] =
                    IF ~isAvailable[p] THEN [code |-> 409, id |-> 0]
                    ELSE [code |-> 201, id |-> Len(bookings) + 1]]
    /\ pc' = [pc EXCEPT ![p] = "done"]
    /\ UNCHANGED <<body, isAvailable, target, snap, probe, probeOut, session>>

\* after the await: 409, or createBooking and 201
PostBookingCreate(p) ==
    /\ pc[p] = "book_checked"
    /\ IF ~isAvailable[p]
       THEN /\ resp' = [resp EXCEPT ![p] = [code |-> 409, id |-> 0]]
            /\ UNCHANGED bookings
       ELSE /\ \E uuid \in uuidDraws(bookings) :
                  bookings' = createBooking(bookings, body[p], uuid)
            /\ resp' = [resp EXCEPT ![p] = [code |-> 201, id |-> Len(bookings) + 1]]
    /\ pc' = [pc EXCEPT ![p] = "done"]
    /\ UNCHANGED <<body, isAvailable, target, snap, probe, probeOut, session>>

----------------------------------------------------------------------------
(* POST /api/bookings/:id/cancel and /complete *)

\* up to the await of getBooking
StatusRead(p, id, next) ==
    /\ Arrives(p)
    /\ pc' = [pc EXCEPT ![p] = next]
    /\ target' = [target EXCEPT ![p] = id]
    /\ snap' = [snap EXCEPT ![p] = getBooking(bookings, id).status]
    /\ UNCHANGED <<bookings, body, isAvailable, resp, probe, probeOut, session>>

\* after the await: 404, 400, or updateBookingStatus and 200
StatusWrite(p, at, refused, status, sent) ==
    /\ pc[p] = at
    /\ IF snap[p] = "missing"
       THEN /\ resp' = [resp EXCEPT ![p] = [code |-> 404, id |-> 0]]
            /\ UNCHANGED bookings
       ELSE IF refused
       THEN /\ resp' = [resp EXCEPT ![p] = [code |-> 400, id |-> 0]]
            /\ UNCHANGED bookings
       ELSE /\ bookings' = updateBookingStatus(bookings, target[p], status)
            /\ resp' = [resp EXCEPT ![p] = [code |-> 200, id |-> target[p]]]
    /\ pc' = [pc EXCEPT ![p] = sent]
    /\ UNCHANGED <<body, isAvailable, target, snap, probe, probeOut, session>>

CancelRead(p, id) == StatusRead(p, id, "cancel_read")

CancelWrite(p) ==
    StatusWrite(p, "cancel_read", cancelRefused(snap[p]), "cancelled", "cancel_done")

CompleteRead(p, id) == StatusRead(p, id, "complete_read")

CompleteWrite(p) ==
    StatusWrite(p, "complete_read", completeRefused(snap[p]), "completed",
                "complete_done")

\* GET /api/bookings/:id, to the await of getBooking
GetBookingRead(p, id) == StatusRead(p, id, "get_read")

\* after the await: 404, or the booking
GetBookingSend(p) ==
    /\ pc[p] = "get_read"
    /\ resp' = [resp EXCEPT ![p] = IF snap[p] = "missing"
                                   THEN [code |-> 404, id |-> 0]
                                   ELSE [code |-> 200, id |-> target[p]]]
    /\ pc' = [pc EXCEPT ![p] = "get_done"]
    /\ UNCHANGED <<bookings, body, isAvailable, target, snap, probe, probeOut, session>>

\* a call of storage.getBookingByUuid (no route calls it): what it returns
\* is kept as the id of the answer
LookupByUuid(p, uuid) ==
    /\ Arrives(p)
    /\ pc' = [pc EXCEPT ![p] = "uuid_done"]
    /\ target' = [target EXCEPT ![p] = uuid]
    /\ resp' = [resp EXCEPT ![p] =
                    [code |-> 0, id |-> getBookingByUuid(bookings, uuid)]]
    /\ UNCHANGED <<bookings, body, isAvailable, snap, probe, probeOut, session>>

Next ==
    \/ \E p \in Procs, b \in Bodies : PostBookingCheck(p, b)
    \/ \E p \in Procs : PostBookingCreate(p)
    \/ \E p \in Procs, id \in TargetIds(bookings) : CancelRead(p, id)
    \/ \E p \in Procs : CancelWrite(p)
    \/ \E p \in Procs, id \in TargetIds(bookings) : CompleteRead(p, id)
    \/ \E p \in Procs : CompleteWrite(p)

Spec == Init /\ [][Next]_vars

----------------------------------------------------------------------------
(* The overlap test on its own: every pair of ranges inside the opening
   window, with hours in MIN_HOURS..MAX_HOURS *)

WindowRanges ==
    { r \in [s : OPENING_HOUR..(CLOSING_HOUR - 1), h : MIN_HOURS..MAX_HOURS] :
        r.s + r.h <= CLOSING_HOUR }

InitOverlap ==
    /\ bookings = seedData
    /\ pc = [p \in Procs |-> "idle"]
    /\ body = [p \in Procs |-> NoBody]
    /\ isAvailable = [p \in Procs |-> FALSE]
    /\ target = [p \in Procs |-> UnknownId]
    /\ snap = [p \in Procs |-> ""]
    /\ resp = [p \in Procs |-> NoResp]
    /\ \E r1 \in WindowRanges, r2 \in WindowRanges :
          probe = [s1 |-> r1.s, h1 |-> r1.h, s2 |-> r2.s, h2 |-> r2.h]
    /\ probeOut = "unused"
    /\ session = LoggedIn

\* one pass of the loop body of checkSlotAvailability: requested range
\* [s1, s1+h1) against booked range [s2, s2+h2)
ApplyOverlap ==
    /\ probeOut = "unused"
    /\ probeOut' = IF slotConflict(probe.s1, probe.s1 + probe.h1,
                                   probe.s2, probe.s2 + probe.h2)
                   THEN "conflict" ELSE "free"
    /\ UNCHANGED <<bookings, pc, body, isAvailable, target, snap, resp, probe,
                 session>>

NextOverlap == ApplyOverlap

SpecOverlap == InitOverlap /\ [][NextOverlap]_vars

----------------------------------------------------------------------------
(* The read-only queries on their own.  A query never writes the ledger, so
   what it answers depends on the ledger it reads only: the queries are
   applied to ledgers drawn from those the routes can build, the seeded
   bookings with some of them cancelled or completed, followed by bookings
   created through POST /api/bookings. *)

\* Bound: the number of created bookings in a drawn ledger
MaxCreated == 2

\* a created booking: the request body and the status it has been moved to
Created(court, date, startHour, hours, sport, amount, status) ==
    [body |-> [Body(court, startHour, hours, sport, amount, "")
                   EXCEPT !.date = date],
     status |-> status]

\* Bodies that pass checkSlotAvailability against the seeded ledger; two of
\* them that share an hour are both stored when their handlers interleave.
\* The date of a body is any "yyyy-MM-dd" string and its courtId any string:
\* neither is looked up, and a court without bookings is free all day.
CreatedPool ==
    { Created("court-a", Today,     11, 2, "football",  5000, "booked"),
      Created("court-a", Today,     12, 1, "cricket",   2000, "booked"),
      Created("court-b", Today,      9, 1, "cricket",   2000, "cancelled"),
      Created("court-b", Today,      9, 2, "football",  5000, "completed"),
      Created("court-a", Today - 7, 18, 3, "cricket",   6000, "booked"),
      Created("court-a", Today + 1,  6, 8, "football", 20000, "completed"),
      Created("court-b", Today + 1, 22, 1, "football",  2500, "booked"),
      Created("court-c", Today - 1,  9, 1, "cricket",   2000, "booked") }

RECURSIVE SeedsFrom(_, _, _)
\* the seeded ledger with the seeds k, k + 1, ... moved to a status
SeedsFrom(bks, k, status) ==
    IF k > NumSeeds THEN bks
    ELSE SeedsFrom(updateBookingStatus(bks, k, status), k + 1, status)

SeedLedgers ==
    {SeedsFrom(seedData, k, status) :
        k \in 1..(NumSeeds + 1), status \in {"cancelled", "completed"}}

\* createBooking, then the cancel or complete route's updateBookingStatus
CreateAs(bks, c) ==
    LET made == createBooking(bks, c.body, Len(bks) + 1)
    IN  IF c.status = "booked" THEN made
        ELSE updateBookingStatus(made, Len(made), c.status)

RECURSIVE LedgersWith(_)
LedgersWith(n) ==
    IF n = 0 THEN SeedLedgers
    ELSE LET fewer == LedgersWith(n - 1)
         IN  fewer \cup {CreateAs(bks, c) : bks \in fewer, c \in CreatedPool}

Ledgers == LedgersWith(MaxCreated)

NoAnswer == [op |-> "none"]

InitQuery ==
    /\ bookings \in Ledgers
    /\ pc = [p \in Procs |-> "idle"]
    /\ body = [p \in Procs |-> NoBody]
    /\ isAvailable = [p \in Procs |-> FALSE]
    /\ target = [p \in Procs |-> UnknownId]
    /\ snap = [p \in Procs |-> ""]
    /\ resp = [p \in Procs |-> NoResp]
    /\ probe = NoProbe
    /\ probeOut = NoAnswer
    /\ session = LoggedIn

\* the dates asked for: the seeded week, the day before it and tomorrow
QueryDates == (Today - 7)..(Today + 1)

\* GET /api/slots?date=...
GetSlots(date) ==
    /\ probeOut = NoAnswer
    /\ probeOut' = [op |-> "slots", date |-> date,
                    slots |-> getAvailability(bookings, date)]
    /\ UNCHANGED <<bookings, pc, body, isAvailable, target, snap, resp, probe,
                 session>>

\* GET /api/bookings
GetBookings ==
    /\ probeOut = NoAnswer
    /\ probeOut' = [op |-> "bookings", bookings |-> getBookings(bookings)]
    /\ UNCHANGED <<bookings, pc, body, isAvailable, target, snap, resp, probe,
                 session>>

\* the clocks a dashboard request is answered under: the first, a middle and
\* the last day of a week, the first and the last day of a month
Clocks == {Clock(dayOfWeek, dayOfMonth) : dayOfWeek \in {0, 3, 6},
                                          dayOfMonth \in {1, 31}}

\* GET /api/dashboard
GetDashboard(clock) ==
    /\ probeOut = NoAnswer
    /\ probeOut' = [op |-> "dashboard", clock |-> clock,
                    metrics |-> getDashboardMetrics(bookings, clock),
                    charts |-> getChartData(bookings, clock)]
    /\ UNCHANGED <<bookings, pc, body, isAvailable, target, snap, resp, probe,
                 session>>

NextQuery ==
    \/ \E date \in QueryDates : GetSlots(date)
    \/ GetBookings
    \/ \E clock \in Clocks : GetDashboard(clock)

SpecQuery == InitQuery /\ [][NextQuery]_vars

----------------------------------------------------------------------------
(* One cancel or complete request on its own, for any booking of a drawn
   ledger: the bookings it can name differ in date, court and status. *)

InitStatus ==
    /\ bookings \in LedgersWith(MaxCreated - 1)
    /\ pc = [p \in Procs |-> "idle"]
    /\ body = [p \in Procs |-> NoBody]
    /\ isAvailable = [p \in Procs |-> FALSE]
    /\ target = [p \in Procs |-> UnknownId]
    /\ snap = [p \in Procs |-> ""]
    /\ resp = [p \in Procs |-> NoResp]
    /\ probe = NoProbe
    /\ probeOut = NoAnswer
    /\ session = LoggedIn

\* req.params.id: the id of any booking, or an id that names none
AnyIds(bks) == {UnknownId} \cup DOMAIN bks

\* a public reference no booking has
UnknownUuid == 0

AnyUuids(bks) == {UnknownUuid} \cup {bks[k].uuid : k \in DOMAIN bks}

NextStatus ==
    \/ \E id \in AnyIds(bookings) : CancelRead(1, id)
    \/ CancelWrite(1)
    \/ \E id \in AnyIds(bookings) : CompleteRead(1, id)
    \/ CompleteWrite(1)
    \/ \E id \in AnyIds(bookings) : GetBookingRead(1, id)
    \/ GetBookingSend(1)
    \/ \E uuid \in AnyUuids(bookings) : LookupByUuid(1, uuid)

SpecStatus == InitStatus /\ [][NextStatus]_vars

----------------------------------------------------------------------------
(* One booking request on its own, on a drawn ledger, with any body the
   schema lets through: status and startTime are strings the route does not
   look at. *)

RequestBodies ==
    Bodies \cup
    { Body("court-a", 11, 1, "cricket", 2000, "pending"),
      [Body("court-a", 11, 1, "cricket", 2000, "")
           EXCEPT !.startTime = [hh |-> NaN, mm |-> 0]] }

NextBooking ==
    \/ \E b \in RequestBodies : PostBookingCheck(1, b)
    \/ PostBookingCreate(1)

SpecBooking == InitStatus /\ [][NextBooking]_vars

----------------------------------------------------------------------------
(* GET /api/dashboard next to a request that writes the ledger.  The route
   awaits getDashboardMetrics and then getChartData; each reads the ledger
   at its call, and the handler yields at the await between them.  Request 1
   is the dashboard request, request 2 a booking, cancel or complete
   request. *)

InitDashboard ==
    /\ bookings = seedData
    /\ pc = [p \in Procs |-> "idle"]
    /\ body = [p \in Procs |-> NoBody]
    /\ isAvailable = [p \in Procs |-> FALSE]
    /\ target = [p \in Procs |-> UnknownId]
    /\ snap = [p \in Procs |-> ""]
    /\ resp = [p \in Procs |-> NoResp]
    /\ probe = NoProbe
    /\ probeOut = NoAnswer
    /\ session = LoggedIn

\* const metrics = await storage.getDashboardMetrics()
DashboardMetrics(p, clock) ==
    /\ Arrives(p)
    /\ pc' = [pc EXCEPT ![p] = "dashboard_metrics"]
    /\ probeOut' = [op |-> "metrics", clock |-> clock,
                    metrics |-> getDashboardMetrics(bookings, clock)]
    /\ UNCHANGED <<bookings, body, isAvailable, target, snap, resp, probe,
                 session>>

\* const charts = await storage.getChartData(); res.json({ metrics, charts })
DashboardCharts(p) ==
    /\ pc[p] = "dashboard_metrics"
    /\ pc' = [pc EXCEPT ![p] = "done"]
    /\ probeOut' = [op |-> "dashboard", clock |-> probeOut.clock,
                    metrics |-> probeOut.metrics,
                    charts |-> getChartData(bookings, probeOut.clock)]
    /\ resp' = [resp EXCEPT ![p] = [code |-> 200, id |-> 0]]
    /\ UNCHANGED <<bookings, body, isAvailable, target, snap, probe,
                 session>>

NextDashboard ==
    \/ \E clock \in Clocks : DashboardMetrics(1, clock)
    \/ DashboardCharts(1)
    \/ \E b \in Bodies : PostBookingCheck(2, b)
    \/ PostBookingCreate(2)
    \/ \E id \in TargetIds(bookings) : CancelRead(2, id)
    \/ CancelWrite(2)
    \/ \E id \in TargetIds(bookings) : CompleteRead(2, id)
    \/ CompleteWrite(2)

SpecDashboard == InitDashboard /\ [][NextDashboard]_vars

----------------------------------------------------------------------------
(* Login, logout and the routes behind requireAuth.  The requests are made
   on one browser session, which starts with no user; a request that
   requireAuth lets through runs the handler of its route, whose later steps
   do not look at the session again. *)

InitAuth ==
    /\ bookings = seedData
    /\ pc = [p \in Procs |-> "idle"]
    /\ body = [p \in Procs |-> NoBody]
    /\ isAvailable = [p \in Procs |-> FALSE]
    /\ target = [p \in Procs |-> UnknownId]
    /\ snap = [p \in Procs |-> ""]
    /\ resp = [p \in Procs |-> NoResp]
    /\ probe = NoProbe
    /\ probeOut = NoAnswer
    /\ session = NoSession

\* res.status(401) of requireAuth: the handler of the route is not run
Unauthorized(p, b, id) ==
    /\ Arrives(p)
    /\ pc' = [pc EXCEPT ![p] = "unauthorized"]
    /\ body' = [body EXCEPT ![p] = b]
    /\ target' = [target EXCEPT ![p] = id]
    /\ resp' = [resp EXCEPT ![p] = [code |-> 401, id |-> 0]]
    /\ UNCHANGED <<bookings, isAvailable, snap, probe, probeOut, session>>

\* app.post("/api/bookings", requireAuth, ...)
AuthPostBooking(p, b) ==
    IF requireAuth(session) THEN PostBookingCheck(p, b)
    ELSE Unauthorized(p, b, UnknownId)

\* app.post("/api/bookings/:id/cancel", requireAuth, ...)
AuthCancel(p, id) ==
    IF requireAuth(session) THEN CancelRead(p, id)
    ELSE Unauthorized(p, NoBody, id)

\* app.post("/api/bookings/:id/complete", requireAuth, ...)
AuthComplete(p, id) ==
    IF requireAuth(session) THEN CompleteRead(p, id)
    ELSE Unauthorized(p, NoBody, id)

\* { username, password } of req.body ("" is a missing field)
Credentials ==
    { [username |-> "admin", password |-> "admin123"],
      [username |-> "admin", password |-> "letmein"],
      [username |-> "guest", password |-> "admin123"],
      [username |-> "admin", password |-> ""] }

\* POST /api/auth/login, to the await of verifyAdminPassword
LoginVerify(p, cred) ==
    /\ Arrives(p)
    /\ IF cred.username = "" \/ cred.password = ""
       THEN /\ pc' = [pc EXCEPT ![p] = "login_done"]
            /\ resp' = [resp EXCEPT ![p] = [code |-> 400, id |-> 0]]
            /\ snap' = [snap EXCEPT ![p] = [cred |-> cred, user |-> NoUser]]
       ELSE /\ pc' = [pc EXCEPT ![p] = "login_verified"]
            /\ snap' = [snap EXCEPT ![p] =
                   [cred |-> cred,
                    user |-> verifyAdminPassword(cred.username, cred.password)]]
            /\ UNCHANGED resp
    /\ UNCHANGED <<bookings, body, isAvailable, target, probe, probeOut, session>>

\* after the await: 401, or the user is put into the session and 200
LoginAnswer(p) ==
    /\ pc[p] = "login_verified"
    /\ IF snap[p].user = NoUser
       THEN /\ resp' = [resp EXCEPT ![p] = [code |-> 401, id |-> 0]]
            /\ UNCHANGED session
       ELSE /\ session' = [userId |-> snap[p].user.id,
                           username |-> snap[p].user.username]
            /\ resp' = [resp EXCEPT ![p] = [code |-> 200, id |-> 0]]
    /\ pc' = [pc EXCEPT ![p] = "login_done"]
    /\ UNCHANGED <<bookings, body, isAvailable, target, snap, probe, probeOut>>

\* POST /api/auth/logout: req.session.destroy
Logout(p) ==
    /\ Arrives(p)
    /\ session' = NoSession
    /\ pc' = [pc EXCEPT ![p] = "logout_done"]
    /\ resp' = [resp EXCEPT ![p] = [code |-> 200, id |-> 0]]
    /\ UNCHANGED <<bookings, body, isAvailable, target, snap, probe, probeOut>>

\* the bodies and ids of the requests made on the session
AuthBodies ==
    { Body("court-a",  9, 2, "cricket",  4000, ""),
      Body("court-a", 11, 1, "cricket",  2000, "") }

AuthIds == {1, UnknownId}

NextAuth ==
    \/ \E p \in Procs, cred \in Credentials : LoginVerify(p, cred)
    \/ \E p \in Procs : LoginAnswer(p)
    \/ \E p \in Procs : Logout(p)
    \/ \E p \in Procs, b \in AuthBodies : AuthPostBooking(p, b)
    \/ \E p \in Procs : PostBookingCreate(p)
    \/ \E p \in Procs, id \in AuthIds : AuthCancel(p, id)
    \/ \E p \in Procs : CancelWrite(p)
    \/ \E p \in Procs, id \in AuthIds : AuthComplete(p, id)
    \/ \E p \in Procs : CompleteWrite(p)

SpecAuth == InitAuth /\ [][NextAuth]_vars

----------------------------------------------------------------------------
(* Properties *)

StartHour(b) == b.startTime.hh
EndHour(b) == b.startTime.hh + b.hours
HoursOf(b) == StartHour(b)..(EndHour(b) - 1)
SameCourtAndDate(a, b) == a.courtId = b.courtId /\ a.date = b.date
SharesAnHour(a, b) == HoursOf(a) \cap HoursOf(b) # {}
InsideWindow(b) == StartHour(b) >= OPENING_HOUR /\ EndHour(b) <= CLOSING_HOUR
Booked(bks) == {k \in DOMAIN bks : bks[k].status = "booked"}
Accepted(p) == pc[p] = "done" /\ resp[p].code = 201

\* C1: in every reachable state, any two distinct bookings with status booked
\* on the same court and date have ranges [start, start+hours) that share no
\* hour.
C1_NoDoubleBooking ==
    \A i \in Booked(bookings), j \in Booked(bookings) :
        (i # j /\ SameCourtAndDate(bookings[i], bookings[j]))
            => ~SharesAnHour(bookings[i], bookings[j])

\* C2: of the booking requests for mutually overlapping ranges on one court
\* and date that run concurrently, exactly one is accepted and stored and the
\* others get the 409: no two of them are both answered 201 with both their
\* bookings standing as booked (a booking never returns to booked, so two
\* such bookings were accepted by checks that each ran before the other's
\* insert).
C2_OneConcurrentCreateWins ==
    \A p \in Procs, q \in Procs :
        (/\ p # q /\ Accepted(p) /\ Accepted(q)
         /\ SameCourtAndDate(body[p], body[q])
         /\ SharesAnHour(body[p], body[q])
         /\ bookings[resp[p].id].status = "booked")
            => /\ bookings[resp[q].id].status # "booked"

\* C3: a booking request whose start hour is below the opening hour or whose
\* end hour is beyond the closing hour stores no booking at any of its steps
\* and is answered with a rejection, whatever the ledger holds.
C3_OutsideWindowRejected ==
    [][\A p \in Procs :
          (pc'[p] # pc[p] /\ ~InsideWindow(body'[p]) /\ body'[p] # NoBody)
              => /\ bookings' = bookings
                 /\ pc'[p] = "done" => resp'[p].code \in {400, 409}]_vars

C3_Witness ==
    \E p \in Procs :
        /\ pc[p] = "done" /\ resp[p].code = 409
        /\ EndHour(body[p]) > CLOSING_HOUR
        /\ ~\E k \in Booked(bookings) :
              SameCourtAndDate(bookings[k], body[p]) /\ SharesAnHour(bookings[k], body[p])

\* C4: every booking stored by an accepted booking request has amount =
\* pricePerHour of its sport * its hours.
C4_AmountIsPriceTimesHours ==
    \A p \in Procs :
        Accepted(p) =>
            LET b == bookings[resp[p].id]
            IN  b.amount = pricePerHour[b.sportId] * b.hours

\* C5: a cancel or complete request that finds the booking cancelled is
\* answered 400 and leaves the ledger as it is.
C5_CancelledIsTerminal ==
    [][\A p \in Procs :
          (/\ pc[p] \in {"cancel_read", "complete_read"}
           /\ pc'[p] # pc[p]
           /\ snap[p] = "cancelled")
              => /\ resp'[p].code = 400
                 /\ bookings' = bookings]_vars

C5_Witness ==
    \E p \in Procs, q \in Procs :
        /\ pc[p] = "cancel_done" /\ resp[p] = [code |-> 200, id |-> target[p]]
        /\ pc[q] = "complete_done" /\ resp[q].code = 400
        /\ target[q] = target[p] /\ snap[q] = "cancelled"
        /\ bookings[target[p]].status = "cancelled"

\* C6: a cancel or complete request that finds the booking completed is
\* answered 400 and leaves the ledger as it is.
C6_CompletedIsTerminal ==
    [][\A p \in Procs :
          (/\ pc[p] \in {"cancel_read", "complete_read"}
           /\ pc'[p] # pc[p]
           /\ snap[p] = "completed")
              => /\ resp'[p].code = 400
                 /\ bookings' = bookings]_vars

\* C7: only booked bookings occupy a slot.  The availability check of a
\* booking request answers "free" exactly when the range is inside the
\* opening window and shares no hour with a booking of status booked on that
\* court and date (cancelled and completed bookings never count), and the
\* request is then accepted exactly when the check answered "free".
C7_OnlyBookedOccupy ==
    [][\A p \in Procs :
          /\ (pc[p] = "idle" /\ pc'[p] = "book_checked")
                => (isAvailable'[p] <=>
                      /\ InsideWindow(body'[p])
                      /\ \A k \in Booked(bookings) :
                            SameCourtAndDate(bookings[k], body'[p])
                                => ~SharesAnHour(bookings[k], body'[p]))
          /\ (pc[p] = "book_checked" /\ pc'[p] = "done")
                => (resp'[p].code = 201 <=> isAvailable[p])]_vars

\* a request accepted for the court, date, start and hours of the first seed,
\* which was booked from the start and is now cancelled or completed
C7_Witness ==
    \E p \in Procs :
        /\ Accepted(p)
        /\ bookings[1].status \in {"cancelled", "completed"}
        /\ SameCourtAndDate(bookings[1], body[p])
        /\ bookings[1].startTime = body[p].startTime
        /\ bookings[1].hours = body[p].hours
        /\ bookings[resp[p].id].status = "booked"

\* C8: the conflict test reports a conflict between the requested range
\* [s1, e1) and a booked range [s2, e2) if and only if s1 < e2 and s2 < e1.
C8_ConflictIffOverlap ==
    probeOut # "unused" =>
        (probeOut = "conflict" <=>
            /\ probe.s1 < probe.s2 + probe.h2
            /\ probe.s2 < probe.s1 + probe.h1)

\* the requested range strictly contains the booked one
C8_Witness ==
    /\ probeOut = "conflict"
    /\ probe.s1 < probe.s2
    /\ probe.s2 + probe.h2 < probe.s1 + probe.h1

\* C9: a request inside the opening window that starts at the end hour of a
\* booked reservation, or ends at its start hour, on the same court and date,
\* and shares no hour with any booked reservation there, is found free and
\* accepted; one that shares an hour with a booked reservation is refused.
C9_AdjacentAccepted ==
    [][\A p \in Procs :
          /\ (pc[p] = "idle" /\ pc'[p] = "book_checked")
                => LET b == body'[p]
                       there == {k \in Booked(bookings) :
                                    SameCourtAndDate(bookings[k], b)}
                   IN  /\ (/\ InsideWindow(b)
                           /\ \E k \in there : \/ StartHour(b) = EndHour(bookings[k])
                                               \/ EndHour(b) = StartHour(bookings[k])
                           /\ \A k \in there : \/ StartHour(b) >= EndHour(bookings[k])
                                               \/ EndHour(b) <= StartHour(bookings[k]))
                            => isAvailable'[p]
                       /\ (\E k \in there : /\ StartHour(b) < EndHour(bookings[k])
                                            /\ StartHour(bookings[k]) < EndHour(b))
                            => ~isAvailable'[p]
          /\ (pc[p] = "book_checked" /\ pc'[p] = "done" /\ isAvailable[p])
                => /\ resp'[p].code = 201
                   /\ bookings'[resp'[p].id].startTime = body[p].startTime
                   /\ bookings'[resp'[p].id].hours = body[p].hours]_vars

\* two accepted requests: one starts where the first seed (09:00 for 2 hours)
\* ends, the other, stored later, ends where the first one starts
C9_Witness ==
    \E p \in Procs, q \in Procs :
        /\ Accepted(p) /\ Accepted(q) /\ resp[p].id < resp[q].id
        /\ SameCourtAndDate(body[p], bookings[1])
        /\ SameCourtAndDate(body[q], bookings[1])
        /\ StartHour(body[p]) = EndHour(bookings[1])
        /\ EndHour(body[q]) = StartHour(body[p])
        /\ bookings[resp[p].id].status = "booked"
        /\ bookings[resp[q].id].status = "booked"

\* C10: every booking stored by an accepted booking request has status booked
\* at the moment it is created.
C10_CreatedAsBooked ==
    [][\A p \in Procs :
          (pc[p] = "book_checked" /\ pc'[p] = "done" /\ resp'[p].code = 201)
              => bookings'[resp'[p].id].status = "booked"]_vars

\* C11: in every reachable state no two distinct bookings share a public
\* reference (uuid), and no two share an internal id.
C11_UniqueReferences ==
    \A i \in DOMAIN bookings, j \in DOMAIN bookings :
        i # j => /\ bookings[i].uuid # bookings[j].uuid
                 /\ bookings[i].id # bookings[j].id

\* C12: booking records are never deleted.  Every step keeps every booking of
\* the ledger, under the same id and at the same place; the ledger changes
\* only by a record appended or a record's status replaced.
C12_NeverDeleted ==
    [][/\ Len(bookings') >= Len(bookings)
       /\ \A i \in DOMAIN bookings : bookings'[i].id = bookings[i].id]_vars

\* a request has stored a booking, that booking has then been cancelled and a
\* seeded booking completed: the ledger went through creation and both updates
C12_Witness ==
    \E p \in Procs, q \in Procs, r \in Procs :
        /\ Accepted(p)
        /\ pc[q] = "cancel_done" /\ resp[q] = [code |-> 200, id |-> resp[p].id]
        /\ pc[r] = "complete_done" /\ resp[r] = [code |-> 200, id |-> 1]
        /\ Len(bookings) = NumSeeds + 1

\* the booked bookings on a court and date whose range start <= h < start + hours
\* holds hour h
Covering(bks, date, courtId, h) ==
    {k \in Booked(bks) : /\ bks[k].courtId = courtId /\ bks[k].date = date
                         /\ StartHour(bks[k]) <= h /\ h < EndHour(bks[k])}

\* C13: for every court, date and hour h of the grid, the slot for h is
\* unavailable exactly when some booked booking on that court and date covers
\* h, i.e. start <= h < start + hours.
C13_UnavailableIffCovered ==
    probeOut.op = "slots" =>
        \A c \in CourtIds :
            LET slots == probeOut.slots[c]
            IN  \A i \in DOMAIN slots :
                    (~slots[i].available)
                        <=> Covering(bookings, probeOut.date, c,
                                     slots[i].time.hh) # {}

\* today's grid of a ledger where the first seed (court-a today 09:00 for 2
\* hours) is cancelled and a created booking for court-a today 11:00 for 2
\* hours is booked: 09:00 and 10:00 are free, 11:00 and 12:00 are taken
C13_Witness ==
    /\ probeOut.op = "slots" /\ probeOut.date = Today
    /\ bookings[1].status = "cancelled"
    /\ Len(bookings) = NumSeeds + 1
    /\ bookings[NumSeeds + 1].courtId = "court-a"
    /\ bookings[NumSeeds + 1].date = Today
    /\ StartHour(bookings[NumSeeds + 1]) = 11
    /\ bookings[NumSeeds + 1].hours = 2
    /\ bookings[NumSeeds + 1].status = "booked"
    /\ LET at(h) == probeOut.slots["court-a"][h - OPENING_HOUR + 1]
       IN  /\ at(9).available /\ at(10).available
           /\ ~at(11).available /\ ~at(12).available

\* C14: every unavailable slot of the grid carries the id of a booked
\* booking that covers its hour, on the second and later hours of a
\* multi-hour booking as on the first; an available slot carries no id.
C14_UnavailableCarriesId ==
    probeOut.op = "slots" =>
        \A c \in CourtIds :
            LET slots == probeOut.slots[c]
            IN  \A i \in DOMAIN slots :
                    IF slots[i].available
                    THEN slots[i].bookingId = NoBookingId
                    ELSE \E k \in Covering(bookings, probeOut.date, c,
                                           slots[i].time.hh) :
                            slots[i].bookingId = bookings[k].id

Cancels(p) == pc[p] = "cancel_read" /\ pc'[p] = "cancel_done" /\ resp'[p].code = 200
Completes(p) ==
    pc[p] = "complete_read" /\ pc'[p] = "complete_done" /\ resp'[p].code = 200

NotCancelled(bks) == SelectSeq(bks, LAMBDA b : b.status # "cancelled")

\* a total goes down by the booking's amount when the booking's date lies
\* between the start of the total's window and today, stays when the date is
\* before the window, and does one of the two otherwise
LoweredByAmount(before, after, b, windowStart, today) ==
    /\ before - after \in {0, b.amount}
    /\ (windowStart <= b.date /\ b.date <= today) => before - after = b.amount
    /\ b.date < windowStart => before = after

\* C16: on every step that changes the ledger, cancelled bookings contribute
\* 0 to the today, week and month revenue totals (the totals are those of
\* the ledger without its cancelled bookings); cancelling a booking that was counted lowers each total it was
\* counted in by exactly its amount; completing a booking leaves all three
\* totals unchanged.
C16_RevenueExcludesCancelled ==
    [][bookings' # bookings => \A clock \in Clocks :
          LET before == getDashboardMetrics(bookings, clock)
              after == getDashboardMetrics(bookings', clock)
              without == getDashboardMetrics(NotCancelled(bookings'), clock)
          IN  /\ after.todayRevenue = without.todayRevenue
              /\ after.weekRevenue = without.weekRevenue
              /\ after.monthRevenue = without.monthRevenue
              /\ \A p \in Procs :
                    /\ (Cancels(p) /\ bookings[target[p]].status # "cancelled")
                         => LET b == bookings[target[p]]
                            IN  /\ LoweredByAmount(before.todayRevenue,
                                       after.todayRevenue, b, clock.today,
                                       clock.today)
                                /\ LoweredByAmount(before.weekRevenue,
                                       after.weekRevenue, b, clock.weekStart,
                                       clock.today)
                                /\ LoweredByAmount(before.monthRevenue,
                                       after.monthRevenue, b, clock.monthStart,
                                       clock.today)
                    /\ Completes(p)
                         => /\ after.todayRevenue = before.todayRevenue
                            /\ after.weekRevenue = before.weekRevenue
                            /\ after.monthRevenue = before.monthRevenue]_vars

\* the cancel route has cancelled a booking that was completed, and so
\* counted, and is dated four days ago: inside the month of some clocks and
\* before the week of others
C16_Witness ==
    /\ pc[1] = "cancel_done" /\ resp[1].code = 200 /\ snap[1] = "completed"
    /\ bookings[target[1]].status = "cancelled"
    /\ bookings[target[1]].date = Today - 4
    /\ \E other \in DOMAIN bookings : bookings[other].status = "cancelled"
                                         /\ other # target[1]

\* the hours of the booked and completed bookings of a court that are dated
\* within the 7 days ending today
TrailingHours(bks, courtId, today) ==
    sumHours(SelectSeq(bks, LAMBDA b :
        /\ b.status \in {"booked", "completed"} /\ b.courtId = courtId
        /\ today - 6 <= b.date /\ b.date <= today))

\* r is an integer nearest to n / d
NearestTo(r, n, d) == 2 * (n - r * d) <= d /\ 2 * (r * d - n) <= d

\* C17: a court's occupancy is round(100 * H / ((closing - opening) * 7)),
\* where H is the total of the hours of the booked and completed bookings on
\* that court in the trailing 7-day window (the 7 days ending today).
C17_OccupancyOverTrailingWeek ==
    probeOut.op = "dashboard" =>
        LET slotHours == (CLOSING_HOUR - OPENING_HOUR) * 7
            today == probeOut.clock.today
        IN  /\ NearestTo(probeOut.metrics.courtAOccupancy,
                         100 * TrailingHours(bookings, "court-a", today), slotHours)
            /\ NearestTo(probeOut.metrics.courtBOccupancy,
                         100 * TrailingHours(bookings, "court-b", today), slotHours)

\* the booked and completed bookings of the ledger with one of the sports
CountedOf(bks, sports) ==
    {k \in DOMAIN bks : /\ bks[k].status \in {"booked", "completed"}
                        /\ bks[k].sportId \in sports}

\* C18: the breakdown has one share per sport of the catalog; a sport's share
\* is the percentage, rounded, of its booked and completed bookings among the
\* booked and completed bookings of all sports of the catalog, and every
\* share is 0 when there are none.
C18_SportShares ==
    probeOut.op = "dashboard" =>
        LET shares == probeOut.charts.occupancyByCourtAndSport
            catalog == DOMAIN pricePerHour
            total == Cardinality(CountedOf(bookings, catalog))
        IN  /\ {shares[n].sport : n \in DOMAIN shares} = catalog
            /\ Len(shares) = Cardinality(catalog)
            /\ \A n \in DOMAIN shares :
                  IF total = 0 THEN shares[n].percentage = 0
                  ELSE NearestTo(shares[n].percentage,
                           100 * Cardinality(CountedOf(bookings, {shares[n].sport})),
                           total)

\* the dashboard of the seeded ledger, 8 cricket and 7 football bookings:
\* the shares are 53 and 47
C18_Witness ==
    /\ probeOut.op = "dashboard"
    /\ Cardinality(CountedOf(bookings, {"cricket"})) = 8
    /\ Cardinality(CountedOf(bookings, {"football"})) = 7
    /\ probeOut.charts.occupancyByCourtAndSport[1].percentage = 53
    /\ probeOut.charts.occupancyByCourtAndSport[2].percentage = 47

\* C19: cancel, complete and lookup by id for an id that no booking has are
\* answered not found, lookup by public reference for a reference that no
\* booking has returns nothing, and the ledger is left as it was.
C19_UnknownIsNotFound ==
    [][\A p \in Procs :
          /\ ( /\ pc[p] \in {"cancel_read", "complete_read", "get_read"}
               /\ pc'[p] # pc[p]
               /\ \A k \in DOMAIN bookings : bookings[k].id # target[p] )
                => resp'[p].code = 404 /\ bookings' = bookings
          /\ ( /\ pc'[p] = "uuid_done" /\ pc[p] # "uuid_done"
               /\ \A k \in DOMAIN bookings : bookings[k].uuid # target'[p] )
                => resp'[p].id = NoBookingId /\ bookings' = bookings
          /\ ( /\ pc'[p] \in {"cancel_read", "complete_read", "get_read"}
               /\ pc[p] # pc'[p]
               /\ \A k \in DOMAIN bookings : bookings[k].id # target'[p] )
                => bookings' = bookings]_vars

\* a cancel request for an id that names no booking has been answered 404
C19_Witness ==
    /\ pc[1] = "cancel_done" /\ target[1] = UnknownId /\ resp[1].code = 404
    /\ \A k \in DOMAIN bookings : bookings[k].id # target[1]

\* C20: a booking request whose range falls outside the opening window is
\* rejected with a validation-error outcome, which is not the outcome of a
\* slot conflict (409): no answer to such a request is 201 or 409.
C20_OutOfWindowIsValidationError ==
    \A p \in Procs :
        (pc[p] = "done" /\ body[p] # NoBody /\ ~InsideWindow(body[p]))
            => resp[p].code \notin {201, 409}

\* C21: for every date and court the grid holds exactly one slot per whole
\* hour from the opening hour to the closing hour exclusive (6..22, 17
\* slots), in ascending order, each with the token HH:00; the sequence of
\* tokens is the same for every court and whatever the ledger holds.
C21_GridIsTheOpeningHours ==
    probeOut.op = "slots" =>
        \A c \in CourtIds :
            LET slots == probeOut.slots[c]
            IN  /\ Len(slots) = 17
                /\ \A i \in DOMAIN slots :
                      slots[i].time = [hh |-> 6 + (i - 1), mm |-> 0]

\* tomorrow's grid of a ledger where court-b is booked at 22:00 and court-a
\* is not: the last slot is taken on one court and free on the other, and has
\* the same token on both
C21_Witness ==
    /\ probeOut.op = "slots" /\ probeOut.date = Today + 1
    /\ \E k \in DOMAIN bookings :
          bookings[k].date = Today + 1 /\ bookings[k].courtId = "court-b"
              /\ bookings[k].status = "booked"
    /\ ~probeOut.slots["court-b"][17].available
    /\ probeOut.slots["court-a"][17].available
    /\ probeOut.slots["court-a"][17].time = probeOut.slots["court-b"][17].time

\* the amounts of the booked and completed bookings dated from..to
RevenueBetween(bks, from, to) ==
    sumAmount(SelectSeq(bks, LAMBDA b :
        /\ b.status \in {"booked", "completed"}
        /\ from <= b.date /\ b.date <= to))

\* C22: each revenue total counts only the bookings dated inside its window:
\* today's only those dated today, the week's only those dated in the 7 days
\* of the current week, the month's only those dated in the current month (of
\* 28 to 31 days); a booking dated after the window's end is not counted.
C22_RevenueInsideWindow ==
    probeOut.op = "dashboard" =>
        LET clock == probeOut.clock
            metrics == probeOut.metrics
        IN  /\ metrics.todayRevenue
                   = RevenueBetween(bookings, clock.today, clock.today)
            /\ metrics.weekRevenue
                   = RevenueBetween(bookings, clock.weekStart, clock.weekStart + 6)
            /\ \E days \in 28..31 :
                  /\ clock.today <= clock.monthStart + days - 1
                  /\ metrics.monthRevenue
                         = RevenueBetween(bookings, clock.monthStart,
                                          clock.monthStart + days - 1)

\* the booked and completed bookings dated on one day
CountedOn(bks, date) ==
    {k \in DOMAIN bks : /\ bks[k].status \in {"booked", "completed"}
                        /\ bks[k].date = date}

\* C23: the chart data holds exactly 7 daily entries, for the 7 consecutive
\* dates ending today, oldest first; an entry's revenue is the sum of the
\* amounts of the booked and completed bookings of its date, its counts are
\* those of the catalog's courts, and the counts of a day add up to the
\* number of booked and completed bookings of that date.
C23_SevenDaySeries ==
    probeOut.op = "dashboard" =>
        LET revenue == probeOut.charts.revenueByDay
            counts == probeOut.charts.bookingsByDay
            today == probeOut.clock.today
        IN  /\ Len(revenue) = 7 /\ Len(counts) = 7
            /\ \A n \in 1..7 :
                  LET date == today - 7 + n
                  IN  /\ revenue[n].date = date /\ counts[n].date = date
                      /\ revenue[n].revenue = RevenueBetween(bookings, date, date)
                      /\ counts[n].courtA
                             = Cardinality({k \in CountedOn(bookings, date) :
                                               bookings[k].courtId = "court-a"})
                      /\ counts[n].courtB
                             = Cardinality({k \in CountedOn(bookings, date) :
                                               bookings[k].courtId = "court-b"})
                      /\ counts[n].courtA + counts[n].courtB
                             = Cardinality(CountedOn(bookings, date))

\* two records of one booking that differ in the status field at most
SameButStatus(a, b) == [a EXCEPT !.status = b.status] = b

\* C24: a cancel or complete request changes at most the status of the one
\* booking it names.  On every step every booking keeps its amount, hours,
\* date, start time, court, sport, id and public reference, and a step of a
\* cancel or complete request leaves every booking but the one it names as
\* it was, and adds none.
C24_StatusUpdateFrame ==
    [][/\ \A i \in DOMAIN bookings :
             i \in DOMAIN bookings' /\ SameButStatus(bookings[i], bookings'[i])
       /\ \A p \in Procs :
             (pc[p] \in {"cancel_read", "complete_read"} /\ pc'[p] # pc[p])
                 => /\ DOMAIN bookings' = DOMAIN bookings
                    /\ \A i \in DOMAIN bookings :
                          bookings[i].id # target[p]
                              => bookings'[i] = bookings[i]]_vars

\* the complete route has completed a created booking in a ledger that also
\* holds cancelled bookings
C24_Witness ==
    /\ pc[1] = "complete_done" /\ resp[1].code = 200
    /\ target[1] > NumSeeds
    /\ bookings[target[1]].status = "completed" /\ snap[1] = "booked"
    /\ \E i \in DOMAIN bookings : bookings[i].status = "cancelled"

\* C25: in every reachable state the status of every booking in the ledger
\* is one of booked, cancelled, completed.
C25_StatusIsOneOfThree ==
    \A k \in DOMAIN bookings :
        bookings[k].status \in {"booked", "cancelled", "completed"}

\* C26: in every reachable state every booking in the ledger, whatever its
\* status, has hours in 1..8 and a range inside the opening window:
\* opening hour <= start hour and start hour + hours <= closing hour.
C26_HoursAndRangeInsideWindow ==
    \A k \in DOMAIN bookings :
        /\ bookings[k].hours \in MIN_HOURS..MAX_HOURS
        /\ parseStartHour(bookings[k].startTime) # NaN
        /\ OPENING_HOUR <= StartHour(bookings[k])
        /\ EndHour(bookings[k]) <= CLOSING_HOUR

\* C27: when a cancel request and a complete request for the same booked
\* booking run concurrently, both having read the status booked, at most one
\* of them is applied: they are never both answered 200.
C27_CancelOrCompleteNotBoth ==
    \A p \in Procs, q \in Procs :
        ( /\ pc[p] = "cancel_done" /\ pc[q] = "complete_done"
          /\ target[p] = target[q]
          /\ snap[p] = "booked" /\ snap[q] = "booked" )
            => ~(resp[p].code = 200 /\ resp[q].code = 200)

\* C28: every dashboard response is derived from one ledger state: today's
\* revenue in its metrics equals the revenue of the newest entry of its
\* 7-day revenue series, whatever requests run next to the dashboard request.
C28_DashboardFromOneLedger ==
    probeOut.op = "dashboard" =>
        probeOut.metrics.todayRevenue
            = probeOut.charts.revenueByDay[Len(probeOut.charts.revenueByDay)].revenue

\* C29: a booking request that is rejected (slot conflict, range outside the
\* opening window, or failed body validation) leaves the ledger exactly as
\* it was: neither its validation and availability check nor the step that
\* answers 400 or 409 adds or changes a booking.
C29_RejectedLeavesLedger ==
    [][\A p \in Procs :
          /\ (pc[p] = "idle" /\ pc'[p] = "book_checked") => bookings' = bookings
          /\ ( /\ pc[p] \in {"idle", "book_checked"} /\ pc'[p] = "done"
               /\ resp'[p].code \in {400, 409} )
                => bookings' = bookings]_vars

\* a request answered 409 whose range is inside the window and shares an
\* hour with a booked booking of its court and date
C29_Witness ==
    /\ pc[1] = "done" /\ resp[1].code = 409
    /\ InsideWindow(body[1])
    /\ \E k \in Booked(bookings) :
          /\ SameCourtAndDate(bookings[k], body[1])
          /\ SharesAnHour(bookings[k], body[1])

\* the handler states of the booking, cancel and complete routes
WritingHandlers == {"book_checked", "cancel_read", "complete_read"}

\* the states a login or logout request goes to
AuthRouteStates == {"login_verified", "login_done", "logout_done"}

====
